---- MODULE Spec2Model ----
(***************************************************************************)
(* Model of the LLM-assisted system monitor:                               *)
(*   - the Dispatch Client, SystemMonitorLLM (LLMClient.py), and the       *)
(*     command line loop main_async around it;                             *)
(*   - the Tool Host operations (FastMCPServer.py and src/server.py).      *)
(***************************************************************************)
EXTENDS Integers, Sequences, FiniteSets, TLC

(***************************************************************************)
(* Bounds of the model.                                                    *)
(***************************************************************************)
MaxHistory == 9
MaxCalls == 2

(***************************************************************************)
(* Dispatch Client state.                                                  *)
(***************************************************************************)
VARIABLES
    conversation_history,  \* self.conversation_history
    pc,                    \* position of the caller inside chat_async
    user_message,          \* parameter of the running chat_async
    tool_calls,            \* response_message.tool_calls of the running turn
    idx,                   \* position of the for loop over tool_calls
    inflight,              \* indices of the tool calls sent on the session and not yet answered
    request,               \* messages of the last completion request
    request_tools,         \* whether that request offered the tool catalog
    returned,              \* value returned by the last chat_async, or NoValue
    turn_base,             \* length of the transcript when the tool-call message was appended
    requests,              \* completion requests the running chat_async has sent
    after_reset            \* reset_conversation ran on a non-empty transcript and no request was sent since

clientVars == <<conversation_history, pc, user_message, tool_calls, idx, inflight,
                request, request_tools, returned, turn_base, requests, after_reset>>

(***************************************************************************)
(* Tool Host state, operations on one target process.                      *)
(***************************************************************************)
VARIABLES
    proc_state,   \* the target process as the OS sees it: running, stopped, gone
    permitted,    \* whether the caller has rights over the target process
    hop,          \* the Tool Host operation being executed
    hpc,          \* its position
    wait_clock,   \* time units spent so far in proc.wait(timeout=3)
    collected,    \* get_process_info: fields of the record evaluated so far
    signals,      \* signals sent to the target by the running operation
    hresult,      \* what the operation handed back
    ret_running,  \* whether the target was still alive when the operation returned
    exit_at       \* where the running operation was when the target exited

hostVars == <<proc_state, permitted, hop, hpc, wait_clock, collected, signals,
              hresult, ret_running, exit_at>>

(***************************************************************************)
(* Tool Host, listing and snapshot operations: the inputs the provider     *)
(* hands them and what they return.                                        *)
(***************************************************************************)
VARIABLES
    enumeration,  \* what psutil.process_iter yields, in enumeration order
    qop,          \* the operation last executed
    qargs,        \* its arguments
    qresult,      \* what FastMCPServer.py returned for it
    qresult_srv   \* what src/server.py returned for the same request

queryVars == <<enumeration, qop, qargs, qresult, qresult_srv>>

(***************************************************************************)
(* The command line loop, main_async.                                      *)
(***************************************************************************)
VARIABLES
    cli_pc,     \* position of main_async
    session,    \* the transport session held by llm.exit_stack: none, open, closed
    cli_line,   \* the line input() returned last, before strip()
    how_left    \* how main_async came to its end

cliVars == <<cli_pc, session, cli_line, how_left>>

NoValue == "none"

Users == {"u1", "u2"}
Texts == {"a1"}
CallIds == {"c1", "c2"}
ToolNames == {"get_cpu_usage"}

\* One tool call of a completion response: identifier, function name, and
\* whether function.arguments is a JSON document json.loads accepts.
ToolCall == [id : CallIds, name : ToolNames, args_json : BOOLEAN]

RECURSIVE SeqsUpTo(_, _)
SeqsUpTo(S, n) ==
    IF n = 0 THEN {<<>>}
    ELSE LET shorter == SeqsUpTo(S, n - 1)
         IN shorter \cup {Append(s, x) : s \in {t \in shorter : Len(t) = n - 1}, x \in S}

ToolCallBatches == SeqsUpTo(ToolCall, MaxCalls) \ {<<>>}

\* Messages of the transcript.
SystemMessage == [role |-> "system", content |-> "prompt", tool_calls |-> <<>>,
                  tool_call_id |-> NoValue, name |-> NoValue]

UserMessage(u) == [role |-> "user", content |-> u, tool_calls |-> <<>>,
                   tool_call_id |-> NoValue, name |-> NoValue]

AssistantMessage(c) == [role |-> "assistant", content |-> c, tool_calls |-> <<>>,
                        tool_call_id |-> NoValue, name |-> NoValue]

AssistantToolCallMessage(c, tcs) ==
    [role |-> "assistant", content |-> c,
     tool_calls |-> [i \in 1..Len(tcs) |-> [id |-> tcs[i].id, name |-> tcs[i].name]],
     tool_call_id |-> NoValue, name |-> NoValue]

ToolMessage(tc, c) == [role |-> "tool", content |-> c, tool_calls |-> <<>>,
                       tool_call_id |-> tc.id, name |-> tc.name]

\* What session.call_tool can do, as _call_mcp_tool sees it.
ToolOutcomes == {"content", "error_record", "no_content", "exception"}

\* _call_mcp_tool: the text handed back to chat_async.
CallMcpToolResult(outcome) ==
    CASE outcome = "content"      -> "tool_json"
      [] outcome = "error_record" -> "tool_error_json"
      [] outcome = "no_content"   -> "No content returned from tool"
      [] outcome = "exception"    -> "MCP tool call failed"

InitClient ==
    /\ conversation_history = <<>>
    /\ pc = "idle"
    /\ user_message = NoValue
    /\ tool_calls = <<>>
    /\ idx = 0
    /\ inflight = {}
    /\ request = <<>>
    /\ request_tools = FALSE
    /\ returned = NoValue
    /\ turn_base = 0
    /\ requests = 0
    /\ after_reset = FALSE

\* chat_async, lines 125-156: seed the system message on an empty transcript,
\* append the user message, send the first completion request.
chat_async_enter(u) ==
    /\ pc \in {"idle", "raised"}
    /\ LET seeded == IF conversation_history = <<>>
                     THEN <<SystemMessage>> ELSE conversation_history
           h == Append(seeded, UserMessage(u))
       IN /\ Len(h) + MaxCalls + 2 <= MaxHistory
          /\ conversation_history' = h
          /\ request' = h
    /\ request_tools' = TRUE
    /\ user_message' = u
    /\ tool_calls' = <<>>
    /\ idx' = 0
    /\ returned' = NoValue
    /\ turn_base' = 0
    /\ pc' = "await_first"
    /\ UNCHANGED <<inflight, after_reset>>
    /\ requests' = 1

\* chat_async called on the object, whoever the caller is.
ChatBegin(u) == chat_async_enter(u) /\ UNCHANGED <<hostVars, queryVars, cliVars>>

\* lines 158-161, 200-208: the model answered with plain text, which is
\* appended and returned.
FirstResponseText(c) ==
    /\ pc = "await_first"
    /\ conversation_history' = Append(conversation_history, AssistantMessage(c))
    /\ returned' = c
    /\ pc' = "idle"
    /\ after_reset' = FALSE
    /\ request' = <<>>
    /\ request_tools' = FALSE
    /\ user_message' = NoValue
    /\ UNCHANGED <<tool_calls, idx, inflight, turn_base>>
    /\ requests' = 0
    /\ UNCHANGED <<hostVars, queryVars, cliVars>>

\* lines 158-176: the model answered with tool calls; the assistant message
\* listing them is appended.
FirstResponseToolCalls(tcs) ==
    /\ pc = "await_first"
    /\ conversation_history' =
           Append(conversation_history, AssistantToolCallMessage(NoValue, tcs))
    /\ tool_calls' = tcs
    /\ idx' = 1
    /\ turn_base' = Len(conversation_history) + 1
    /\ pc' = "dispatch"
    /\ after_reset' = FALSE
    /\ request' = <<>>
    /\ request_tools' = FALSE
    /\ UNCHANGED <<user_message, inflight, returned>>
    /\ UNCHANGED requests
    /\ UNCHANGED <<hostVars, queryVars, cliVars>>

\* lines 151-156, 194-197: the completion request raises; chat_async has no
\* handler, so the exception leaves it and its locals are gone.
CompletionRaises ==
    /\ pc \in {"await_first", "await_final"}
    /\ pc' = "raised"
    /\ after_reset' = FALSE
    /\ request' = <<>>
    /\ request_tools' = FALSE
    /\ user_message' = NoValue
    /\ tool_calls' = <<>>
    /\ idx' = 0
    /\ turn_base' = 0
    /\ UNCHANGED <<conversation_history, inflight, returned>>
    /\ requests' = 0
    /\ UNCHANGED <<hostVars, queryVars, cliVars>>

\* A dispatch that parses and sends every remaining call before waiting for
\* any of them.
DispatchToolCall_gather ==
    /\ pc = "dispatch"
    /\ idx <= Len(tool_calls)
    /\ IF \A i \in idx..Len(tool_calls) : tool_calls[i].args_json
       THEN /\ inflight' = inflight \cup (idx..Len(tool_calls))
            /\ pc' = "await_tool"
            /\ UNCHANGED <<user_message, tool_calls, idx, turn_base>>
       ELSE /\ pc' = "raised"
            /\ user_message' = NoValue
            /\ tool_calls' = <<>>
            /\ idx' = 0
            /\ turn_base' = 0
            /\ UNCHANGED inflight
    /\ UNCHANGED <<conversation_history, request, request_tools, returned, after_reset>>
    /\ requests' = IF \A i \in idx..Len(tool_calls) : tool_calls[i].args_json THEN requests ELSE 0
    /\ UNCHANGED <<hostVars, queryVars, cliVars>>

\* lines 178-185: next iteration of the for loop: parse the arguments
\* (json.loads raises on a malformed document and nothing catches it), then
\* send the request on the session and wait for it.
DispatchToolCall ==
    /\ pc = "dispatch"
    /\ idx <= Len(tool_calls)
    /\ IF tool_calls[idx].args_json
       THEN /\ inflight' = inflight \cup {idx}
            /\ pc' = "await_tool"
            /\ UNCHANGED <<user_message, tool_calls, idx, turn_base>>
       ELSE /\ pc' = "raised"
            /\ user_message' = NoValue
            /\ tool_calls' = <<>>
            /\ idx' = 0
            /\ turn_base' = 0
            /\ UNCHANGED inflight
    /\ UNCHANGED <<conversation_history, request, request_tools, returned, after_reset>>
    /\ requests' = IF tool_calls[idx].args_json THEN requests ELSE 0
    /\ UNCHANGED <<hostVars, queryVars, cliVars>>

\* A tool return that lets the failure of session.call_tool leave chat_async
\* instead of turning it into an error record.
ToolReturn_raise_on_failure(outcome) ==
    /\ pc = "await_tool"
    /\ inflight' = inflight \ {idx}
    /\ IF outcome = "exception"
       THEN /\ pc' = "raised"
            /\ user_message' = NoValue
            /\ tool_calls' = <<>>
            /\ idx' = 0
            /\ turn_base' = 0
            /\ UNCHANGED conversation_history
       ELSE /\ conversation_history' =
                   Append(conversation_history,
                          ToolMessage(tool_calls[idx], CallMcpToolResult(outcome)))
            /\ idx' = idx + 1
            /\ pc' = "dispatch"
            /\ UNCHANGED <<user_message, tool_calls, turn_base>>
    /\ UNCHANGED <<request, request_tools, returned, after_reset>>
    /\ requests' = IF outcome = "exception" THEN 0 ELSE requests
    /\ UNCHANGED <<hostVars, queryVars, cliVars>>

\* A tool response appended under the identifier of the first call of the
\* batch instead of the call being iterated.
ToolReturn_first_id(outcome) ==
    /\ pc = "await_tool"
    /\ inflight' = inflight \ {idx}
    /\ conversation_history' =
           Append(conversation_history,
                  ToolMessage(tool_calls[1], CallMcpToolResult(outcome)))
    /\ idx' = idx + 1
    /\ pc' = "dispatch"
    /\ UNCHANGED <<user_message, tool_calls, request, request_tools, returned,
                   turn_base, after_reset>>
    /\ UNCHANGED requests
    /\ UNCHANGED <<hostVars, queryVars, cliVars>>

\* lines 185-192 with _call_mcp_tool (91-118): the awaited call completes, its
\* text is appended under the identifier of the call being iterated.
ToolReturn(outcome) ==
    /\ pc = "await_tool"
    /\ inflight' = inflight \ {idx}
    /\ conversation_history' =
           Append(conversation_history,
                  ToolMessage(tool_calls[idx], CallMcpToolResult(outcome)))
    /\ idx' = idx + 1
    /\ pc' = "dispatch"
    /\ UNCHANGED <<user_message, tool_calls, request, request_tools, returned,
                   turn_base, after_reset>>
    /\ UNCHANGED requests
    /\ UNCHANGED <<hostVars, queryVars, cliVars>>

\* lines 194-197: the loop is over, send the synthesis request (no tools).
SynthesisRequest ==
    /\ pc = "dispatch"
    /\ idx > Len(tool_calls)
    /\ request' = conversation_history
    /\ request_tools' = FALSE
    /\ pc' = "await_final"
    /\ UNCHANGED <<conversation_history, user_message, tool_calls, idx, inflight,
                   returned, turn_base, after_reset>>
    /\ requests' = requests + 1
    /\ UNCHANGED <<hostVars, queryVars, cliVars>>

\* A final response that replaces the tool exchange of the turn by the answer.
FinalResponse_compact(c) ==
    /\ pc = "await_final"
    /\ conversation_history' =
           Append(SubSeq(conversation_history, 1, turn_base - 1), AssistantMessage(c))
    /\ returned' = c
    /\ pc' = "idle"
    /\ request' = <<>>
    /\ user_message' = NoValue
    /\ tool_calls' = <<>>
    /\ idx' = 0
    /\ turn_base' = 0
    /\ UNCHANGED <<inflight, request_tools, after_reset>>
    /\ requests' = 0
    /\ UNCHANGED <<hostVars, queryVars, cliVars>>

\* lines 199, 203-208: the synthesis arrives and is appended and returned.
FinalResponse(c) ==
    /\ pc = "await_final"
    /\ conversation_history' = Append(conversation_history, AssistantMessage(c))
    /\ returned' = c
    /\ pc' = "idle"
    /\ request' = <<>>
    /\ user_message' = NoValue
    /\ tool_calls' = <<>>
    /\ idx' = 0
    /\ turn_base' = 0
    /\ UNCHANGED <<inflight, request_tools, after_reset>>
    /\ requests' = 0
    /\ UNCHANGED <<hostVars, queryVars, cliVars>>

\* A reset that rebinds a local name and leaves self.conversation_history alone.
reset_conversation_local ==
    /\ pc \in {"idle", "raised"}
    /\ after_reset' = (conversation_history # <<>> \/ after_reset)
    /\ pc' = "idle"
    /\ UNCHANGED <<conversation_history, user_message, tool_calls, idx, inflight,
                   request, request_tools, returned, turn_base>>
    /\ UNCHANGED requests
    /\ UNCHANGED <<hostVars, queryVars, cliVars>>

\* reset_conversation, lines 214-217: the assignment.
ResetTranscript ==
    /\ pc \in {"idle", "raised"}
    /\ conversation_history' = <<>>
    /\ after_reset' = (conversation_history # <<>> \/ after_reset)
    /\ pc' = "idle"
    /\ UNCHANGED <<user_message, tool_calls, idx, inflight, request, request_tools,
                   returned, turn_base>>
    /\ UNCHANGED requests

\* reset_conversation called on the object, whoever the caller is.
reset_conversation == ResetTranscript /\ UNCHANGED <<hostVars, queryVars, cliVars>>

NextClient ==
    \/ \E u \in Users : ChatBegin(u)
    \/ \E c \in Texts : FirstResponseText(c)
    \/ \E tcs \in ToolCallBatches : FirstResponseToolCalls(tcs)
    \/ CompletionRaises
    \/ DispatchToolCall
    \/ \E o \in ToolOutcomes : ToolReturn(o)
    \/ SynthesisRequest
    \/ \E c \in Texts : FinalResponse(c)
    \/ reset_conversation

(***************************************************************************)
(* Tool Host, operations on one target process (FastMCPServer.py; the same *)
(* bodies are in src/server.py).  The operating system owns the process:   *)
(* it may exit at any moment, whatever the Tool Host is doing.             *)
(***************************************************************************)
\* proc.wait(timeout=3)
WaitTimeout == 3

\* The provider calls of get_process_info, in evaluation order of the dict
\* literal (proc.pid is an attribute and asks the OS nothing).
InfoReads == <<"name", "status", "cpu_percent", "memory_percent", "memory_mb",
               "num_threads", "username", "create_time", "cmdline">>

InfoFields == {"pid", "timestamp"} \cup {InfoReads[i] : i \in 1..Len(InfoReads)}

NoResult == [kind |-> "none", success |-> NoValue, message |-> NoValue, fields |-> {}]

\* {"error": ...}
ErrorRecord(msg) ==
    [kind |-> "error", success |-> NoValue, message |-> msg, fields |-> {"error"}]

\* {"success": False, "error": ...}
FailureRecord(msg) ==
    [kind |-> "error", success |-> "false", message |-> msg, fields |-> {"success", "error"}]

\* {"success": True, "message": ..., "timestamp": ...}
SuccessRecord(msg) ==
    [kind |-> "record", success |-> "true", message |-> msg,
     fields |-> {"success", "message", "timestamp"}]

\* An exception leaves the decorated function.
Raised(exc) == [kind |-> "raised", success |-> NoValue, message |-> exc, fields |-> {}]

Alive == proc_state \in {"running", "stopped"}

InitHost ==
    /\ proc_state \in {"running", "gone"}
    /\ permitted \in BOOLEAN
    /\ hop = NoValue
    /\ hpc = "idle"
    /\ wait_clock = 0
    /\ collected = 0
    /\ signals = <<>>
    /\ hresult = NoResult
    /\ ret_running = NoValue
    /\ exit_at = IF proc_state = "gone" THEN "before_call" ELSE "never"

\* The operation returns: record what it hands back and whether the target
\* is alive at that instant.
Return(r) ==
    /\ hresult' = r
    /\ ret_running' = Alive
    /\ hpc' = "done"

\* The OS: the target exits (on its own, or because a signal reached it).
ProcessExits ==
    /\ Alive
    /\ proc_state' = "gone"
    /\ exit_at' = IF hpc = "info_read" /\ collected = Len(InfoReads)
                  THEN "info_complete" ELSE hpc
    /\ UNCHANGED <<permitted, hop, hpc, wait_clock, collected, signals, hresult, ret_running>>
    /\ UNCHANGED <<clientVars, queryVars, cliVars>>

\* A tool request arrives and the operation starts.
HostOps == {"terminate_process", "get_process_info", "suspend_process", "resume_process"}

Invoke(op) ==
    /\ hpc \in {"idle", "done"}
    /\ hop' = op
    /\ hpc' = "new"
    /\ wait_clock' = 0
    /\ collected' = 0
    /\ signals' = <<>>
    /\ hresult' = NoResult
    /\ ret_running' = NoValue
    /\ exit_at' = IF Alive THEN "never" ELSE "before_call"
    /\ UNCHANGED <<proc_state, permitted>>
    /\ UNCHANGED <<clientVars, queryVars, cliVars>>

\* Handlers of get_process_info that hand back the pid beside the error.
Handle_pid_in_error(op, exc) ==
    CASE op = "get_process_info" /\ exc \in {"NoSuchProcess", "AccessDenied"}
             -> [kind |-> "error", success |-> NoValue, message |-> "not found",
                 fields |-> {"pid", "error"}]
      [] op \in {"terminate_process", "suspend_process", "resume_process"}
            /\ exc \in {"NoSuchProcess", "AccessDenied"}
             -> FailureRecord("not found")
      [] OTHER -> Raised(exc)

\* The except clauses of each operation: what becomes of an exception raised
\* inside its try block (TimeoutExpired of terminate_process is the kill path
\* below).  The snapshot operations of FastMCPServer.py have no try block.
Handle(op, exc) ==
    CASE op = "terminate_process" /\ exc = "NoSuchProcess" -> FailureRecord("not found")
      [] op = "terminate_process" /\ exc = "AccessDenied"  -> FailureRecord("access denied")
      [] op = "get_process_info"  /\ exc = "NoSuchProcess" -> ErrorRecord("not found")
      [] op = "get_process_info"  /\ exc = "AccessDenied"  -> ErrorRecord("access denied")
      [] op \in {"suspend_process", "resume_process"} /\ exc = "NoSuchProcess"
                                                           -> FailureRecord("not found")
      [] op \in {"suspend_process", "resume_process"} /\ exc = "AccessDenied"
                                                           -> FailureRecord("access denied")
      [] OTHER                                             -> Raised(exc)

\* proc = psutil.Process(pid)
NewProcess ==
    /\ hpc = "new"
    /\ IF Alive
       THEN /\ hpc' = IF hop = "get_process_info" THEN "info_read" ELSE "name"
            /\ UNCHANGED <<hresult, ret_running>>
       ELSE Return(Handle(hop, "NoSuchProcess"))
    /\ UNCHANGED <<proc_state, permitted, hop, wait_clock, collected, signals, exit_at>>
    /\ UNCHANGED <<clientVars, queryVars, cliVars>>

\* proc_name = proc.name()
ProcName ==
    /\ hpc = "name"
    /\ IF Alive
       THEN /\ hpc' = CASE hop = "terminate_process" -> "terminate"
                        [] hop = "suspend_process"   -> "suspend"
                        [] hop = "resume_process"    -> "resume"
            /\ UNCHANGED <<hresult, ret_running>>
       ELSE Return(Handle(hop, "NoSuchProcess"))
    /\ UNCHANGED <<proc_state, permitted, hop, wait_clock, collected, signals, exit_at>>
    /\ UNCHANGED <<clientVars, queryVars, cliVars>>

\* proc.terminate()
Terminate ==
    /\ hpc = "terminate"
    /\ IF ~Alive THEN /\ Return(Handle(hop, "NoSuchProcess"))
                      /\ UNCHANGED signals
       ELSE IF ~permitted THEN /\ Return(Handle(hop, "AccessDenied"))
                               /\ UNCHANGED signals
       ELSE /\ signals' = Append(signals, "SIGTERM")
            /\ hpc' = "wait"
            /\ UNCHANGED <<hresult, ret_running>>
    /\ UNCHANGED <<proc_state, permitted, hop, wait_clock, collected, exit_at>>
    /\ UNCHANGED <<clientVars, queryVars, cliVars>>

\* proc.wait(timeout=3): a time unit passes and the target is still there.
WaitTick ==
    /\ hpc = "wait"
    /\ Alive
    /\ wait_clock < WaitTimeout
    /\ wait_clock' = wait_clock + 1
    /\ UNCHANGED <<proc_state, permitted, hop, hpc, collected, signals, hresult,
                   ret_running, exit_at>>
    /\ UNCHANGED <<clientVars, queryVars, cliVars>>

\* proc.wait returns because the target is gone; lines 160-164.
WaitReturns ==
    /\ hpc = "wait"
    /\ ~Alive
    /\ Return(SuccessRecord("successfully terminated"))
    /\ UNCHANGED <<proc_state, permitted, hop, wait_clock, collected, signals, exit_at>>
    /\ UNCHANGED <<clientVars, queryVars, cliVars>>

\* A wait that gives up before its bound.
WaitTimeoutExpired_early ==
    /\ hpc = "wait"
    /\ Alive
    /\ hpc' = "kill"
    /\ UNCHANGED <<proc_state, permitted, hop, wait_clock, collected, signals, hresult,
                   ret_running, exit_at>>
    /\ UNCHANGED <<clientVars, queryVars, cliVars>>

\* proc.wait raises TimeoutExpired; the handler of line 169 is entered.
WaitTimeoutExpired ==
    /\ hpc = "wait"
    /\ Alive
    /\ wait_clock = WaitTimeout
    /\ hpc' = "kill"
    /\ UNCHANGED <<proc_state, permitted, hop, wait_clock, collected, signals, hresult,
                   ret_running, exit_at>>
    /\ UNCHANGED <<clientVars, queryVars, cliVars>>

\* lines 171-179: proc.kill() and the immediate return; any exception of
\* kill() becomes a success=false record.  kill() only sends the signal: the
\* target may or may not be gone by the time the function returns.
Kill(died) ==
    /\ hpc = "kill"
    /\ IF Alive
       THEN /\ signals' = Append(signals, "SIGKILL")
            /\ proc_state' = IF died THEN "gone" ELSE proc_state
            /\ exit_at' = IF died THEN "killed" ELSE exit_at
            /\ hresult' = SuccessRecord("forcefully killed")
            /\ ret_running' = ~died
            /\ hpc' = "done"
       ELSE /\ Return(FailureRecord("kill failed"))
            /\ UNCHANGED <<signals, proc_state, exit_at>>
    /\ UNCHANGED <<permitted, hop, wait_clock, collected>>
    /\ UNCHANGED <<clientVars, queryVars, cliVars>>

\* proc.suspend() / proc.resume() and the return that follows; other is a
\* fault of the provider that is neither NoSuchProcess nor AccessDenied.
SuspendResume(other) ==
    /\ hpc \in {"suspend", "resume"}
    /\ IF ~Alive THEN /\ Return(Handle(hop, "NoSuchProcess"))
                      /\ UNCHANGED proc_state
       ELSE IF ~permitted THEN /\ Return(Handle(hop, "AccessDenied"))
                               /\ UNCHANGED proc_state
       ELSE IF other THEN /\ Return(Handle(hop, "OSError"))
                          /\ UNCHANGED proc_state
       ELSE /\ proc_state' = IF hpc = "suspend" THEN "stopped" ELSE "running"
            /\ Return(SuccessRecord(IF hpc = "suspend" THEN "suspended" ELSE "resumed"))
    /\ UNCHANGED <<permitted, hop, wait_clock, collected, signals, exit_at>>
    /\ UNCHANGED <<clientVars, queryVars, cliVars>>

\* get_process_info, lines 94-106: the next provider call of the dict literal.
\* Without rights over the target a call may raise AccessDenied.
InfoRead(denied) ==
    /\ hpc = "info_read"
    /\ collected < Len(InfoReads)
    /\ IF ~Alive THEN /\ Return(Handle(hop, "NoSuchProcess"))
                      /\ UNCHANGED collected
       ELSE IF ~permitted /\ denied THEN /\ Return(Handle(hop, "AccessDenied"))
                                         /\ UNCHANGED collected
       ELSE /\ collected' = collected + 1
            /\ UNCHANGED <<hpc, hresult, ret_running>>
    /\ UNCHANGED <<proc_state, permitted, hop, wait_clock, signals, exit_at>>
    /\ UNCHANGED <<clientVars, queryVars, cliVars>>

\* get_process_info: every field is evaluated, the record is returned.
InfoReturn ==
    /\ hpc = "info_read"
    /\ collected = Len(InfoReads)
    /\ Return([kind |-> "record", success |-> NoValue, message |-> NoValue,
               fields |-> InfoFields])
    /\ UNCHANGED <<proc_state, permitted, hop, wait_clock, collected, signals, exit_at>>
    /\ UNCHANGED <<clientVars, queryVars, cliVars>>

\* The snapshot operations of FastMCPServer.py: one or more provider calls
\* and a dict literal, no try block.
SnapshotOps == {"get_cpu_usage", "get_memory_usage", "get_disk_usage",
                "get_system_summary", "get_network_stats"}

\* Faults the provider can raise in a snapshot operation: disk_usage(path)
\* raises FileNotFoundError for a path that does not exist.
SnapshotFaults(op) ==
    IF op \in {"get_disk_usage", "get_system_summary"}
    THEN {"none", "FileNotFoundError", "PermissionError", "OSError"}
    ELSE {"none", "OSError"}

Snapshot(op, fault) ==
    /\ hpc \in {"idle", "done"}
    /\ hop' = op
    /\ wait_clock' = 0
    /\ collected' = 0
    /\ signals' = <<>>
    /\ exit_at' = IF Alive THEN "never" ELSE "before_call"
    /\ IF fault = "none"
       THEN Return([kind |-> "record", success |-> NoValue, message |-> NoValue,
                    fields |-> {"timestamp"}])
       ELSE Return(Handle(op, fault))
    /\ UNCHANGED <<proc_state, permitted>>
    /\ UNCHANGED <<clientVars, queryVars, cliVars>>

NextHost ==
    \/ ProcessExits
    \/ \E op \in HostOps : Invoke(op)
    \/ NewProcess
    \/ ProcName
    \/ Terminate
    \/ WaitTick
    \/ WaitReturns
    \/ WaitTimeoutExpired
    \/ \E died \in BOOLEAN : Kill(died)
    \/ \E other \in BOOLEAN : SuspendResume(other)
    \/ \E denied \in BOOLEAN : InfoRead(denied)
    \/ InfoReturn
    \/ \E op \in SnapshotOps : \E f \in SnapshotFaults(op) : Snapshot(op, f)

(***************************************************************************)
(* Tool Host, process listing and search, disk snapshot.                   *)
(***************************************************************************)
MaxProcs == 2
MaxLimit == 2

\* Process names are strings, kept as sequences of characters so that
\* str.lower and the substring test are computed.  A field the provider
\* could not read (access denied) is None in proc.info.
ProcNames == {<<"a">>, <<"A", "b">>}
SearchNames == {<<"a">>, <<"B">>, <<"b", "a">>}

\* None in proc.info, for a name and for a percentage.
NoName == <<"None">>
NoPercent == -1

\* Percentages are kept in thousandths; round(x, 2) gives hundredths.
CpuValues == {1004, 1006}
MemValues == {2004, 2006}

\* One process of the enumeration: proc.info's name and memory_percent
\* (None when unreadable), the value proc.cpu_percent(interval=0.1) measures,
\* and whether the process is gone by the time it is measured.
ProcEntry == [name : ProcNames \cup {NoName}, cpu : CpuValues,
              mem : MemValues \cup {NoPercent}, gone : BOOLEAN]

\* The enumerations: pid is the position in enumeration order.
Enumerations == SeqsUpTo(ProcEntry, MaxProcs)

SortKeys == {"cpu", "memory", "name", "threads"}

\* str.lower on one character, and on a string.
LowerChar(c) ==
    CASE c = "A" -> "a" [] c = "B" -> "b" [] c = "E" -> "e" [] c = "I" -> "i"
      [] c = "R" -> "r" [] c = "S" -> "s" [] c = "T" -> "t" [] c = "X" -> "x"
      [] OTHER -> c

Lower(str) == [i \in 1..Len(str) |-> LowerChar(str[i])]

\* sub in str
Contains(sub, str) ==
    \E k \in 0..(Len(str) - Len(sub)) :
        \A i \in 1..Len(sub) : str[k + i] = sub[i]

\* Python's ordering of strings, for the characters used here: code points,
\* then length.  Rank is monotone in that ordering for strings of length <= 2.
CodePoint(c) == CASE c = "A" -> 1 [] c = "B" -> 2 [] c = "a" -> 3 [] c = "b" -> 4

StrRank(str) ==
    CASE Len(str) = 0 -> 0
      [] Len(str) = 1 -> 5 * CodePoint(str[1])
      [] OTHER        -> 5 * CodePoint(str[1]) + CodePoint(str[2])

\* round(x, 2) of a value in thousandths, in hundredths: to nearest, ties to even.
Round2(x) ==
    LET q == x \div 10
        r == x % 10
    IN IF r > 5 \/ (r = 5 /\ q % 2 = 1) THEN q + 1 ELSE q

Take(seq, n) == SubSeq(seq, 1, IF n < Len(seq) THEN n ELSE Len(seq))

\* The sort keys of get_top_processes: the lambdas of lines 79, 81 and 83.
SortKey(x, key) ==
    CASE key = "cpu"    -> x.cpu_percent
      [] key = "memory" -> x.memory_percent
      [] key = "name"   -> StrRank(Lower(x.name))

\* list.sort(key=..., reverse=True): stable, descending in the key.
RECURSIVE InsertDesc(_, _, _)
InsertDesc(sorted, x, key) ==
    IF sorted = <<>> THEN <<x>>
    ELSE IF SortKey(Head(sorted), key) < SortKey(x, key) THEN <<x>> \o sorted
    ELSE <<Head(sorted)>> \o InsertDesc(Tail(sorted), x, key)

RECURSIVE SortDesc(_, _)
SortDesc(seq, key) ==
    IF seq = <<>> THEN <<>>
    ELSE InsertDesc(SortDesc(SubSeq(seq, 1, Len(seq) - 1), key), seq[Len(seq)], key)

\* list.sort(key=...): stable, ascending in the key.
RECURSIVE InsertAsc(_, _, _)
InsertAsc(sorted, x, key) ==
    IF sorted = <<>> THEN <<x>>
    ELSE IF SortKey(Head(sorted), key) > SortKey(x, key) THEN <<x>> \o sorted
    ELSE <<Head(sorted)>> \o InsertAsc(Tail(sorted), x, key)

RECURSIVE SortAsc(_, _)
SortAsc(seq, key) ==
    IF seq = <<>> THEN <<>>
    ELSE InsertAsc(SortAsc(SubSeq(seq, 1, Len(seq) - 1), key), seq[Len(seq)], key)

ListResult(items) == [kind |-> "list", items |-> items, exc |-> NoValue]
RaisedResult(exc) == [kind |-> "raised", items |-> <<>>, exc |-> exc]
NoList == [kind |-> "none", items |-> <<>>, exc |-> NoValue]

\* FastMCPServer.get_top_processes, lines 68-76: the collecting loop.  A gone
\* process raises NoSuchProcess in cpu_percent and is skipped; round(None, 2)
\* raises TypeError, which the except clause does not name.
RECURSIVE CollectTop(_, _, _)
CollectTop(enum, i, acc) ==
    IF i > Len(enum) THEN ListResult(acc)
    ELSE IF enum[i].gone THEN CollectTop(enum, i + 1, acc)
    ELSE IF enum[i].mem = NoPercent THEN RaisedResult("TypeError")
    ELSE CollectTop(enum, i + 1,
                    Append(acc, [pid |-> i, name |-> enum[i].name,
                                 cpu_percent |-> Round2(enum[i].cpu),
                                 memory_percent |-> Round2(enum[i].mem)]))

\* FastMCPServer.get_top_processes, lines 78-85: the sort and the slice.
\* None has no lower(): AttributeError.  An unrecognised key sorts nothing.
TopProcesses(enum, limit, sort_by) ==
    LET got == CollectTop(enum, 1, <<>>)
        ps == got.items
    IN IF got.kind = "raised" THEN got
       ELSE IF sort_by = "cpu" THEN ListResult(Take(SortDesc(ps, "cpu"), limit))
       ELSE IF sort_by = "memory" THEN ListResult(Take(SortDesc(ps, "memory"), limit))
       ELSE IF sort_by = "name"
            THEN IF \E i \in 1..Len(ps) : ps[i].name = NoName
                 THEN RaisedResult("AttributeError")
                 ELSE ListResult(Take(SortAsc(ps, "name"), limit))
       ELSE ListResult(Take(ps, limit))

\* src/server.py get_top_processes, lines 83-94: the collecting loop reads
\* proc.info only, a missing value counts as 0; cpu_percent is not rounded
\* (it stays in thousandths).
CollectTopSrv(enum) ==
    [i \in 1..Len(enum) |->
        [pid |-> i, name |-> enum[i].name,
         cpu_percent |-> enum[i].cpu,
         memory_percent |-> IF enum[i].mem = NoPercent THEN 0 ELSE Round2(enum[i].mem)]]

\* src/server.py get_top_processes, lines 96-106: memory, or else cpu.
TopProcessesSrv(enum, limit, sort_by) ==
    LET ps == CollectTopSrv(enum)
    IN IF sort_by = "memory" THEN ListResult(Take(SortDesc(ps, "memory"), limit))
       ELSE ListResult(Take(SortDesc(ps, "cpu"), limit))

\* search_process_by_name, lines 116-128 (src/server.py 151-163 is the same).
RECURSIVE SearchLoop(_, _, _, _)
SearchLoop(enum, name, i, acc) ==
    IF i > Len(enum) THEN ListResult(acc)
    ELSE IF enum[i].name = NoName THEN RaisedResult("AttributeError")
    ELSE IF ~Contains(Lower(name), Lower(enum[i].name)) THEN SearchLoop(enum, name, i + 1, acc)
    ELSE IF enum[i].gone THEN SearchLoop(enum, name, i + 1, acc)
    ELSE IF enum[i].mem = NoPercent THEN RaisedResult("TypeError")
    ELSE SearchLoop(enum, name, i + 1,
                    Append(acc, [pid |-> i, name |-> enum[i].name,
                                 cpu_percent |-> Round2(enum[i].cpu),
                                 memory_percent |-> Round2(enum[i].mem)]))

SearchProcessByName(enum, name) == SearchLoop(enum, name, 1, <<>>)

\* 1024 * 1024 * 1024, the divisor of bytes_to_gb.
GbBytes == 1024 * 1024 * 1024

\* bytes_to_gb, lines 13-14: round(bytes_value / 1024**3, 2), in hundredths of
\* a GB.  The quotient bytes_value * 100 / 2^30 is computed in two halves to
\* stay inside 32-bit integers; round() goes to nearest, ties to even.
bytes_to_gb(bytes_value) ==
    LET low20 == 1024 * 1024
        bh    == bytes_value \div low20
        bl    == bytes_value % low20
        t     == 100 * bh + (100 * bl) \div low20
        low   == (100 * bl) % low20
        q     == t \div 1024
        rem   == (t % 1024) * low20 + low
        half  == GbBytes \div 2
    IN IF rem > half \/ (rem = half /\ q % 2 = 1) THEN q + 1 ELSE q

\* Byte totals of the filesystems psutil.disk_usage may be asked about.
DiskTotals == {4096, 1048576, 5368709, 5368710, 134217728, 1073741824}

\* psutil.disk_usage(path) of an existing path: total, used, free in bytes
\* and the percentage (in tenths), which psutil computes itself.
DiskUsages ==
    UNION {{[total |-> t, used |-> u, free |-> t - u,
             percent |-> IF u = 0 THEN 0 ELSE IF u = t THEN 1000 ELSE 500] :
                u \in {0, t \div 2, t}} : t \in DiskTotals}

DiskPaths == {"/", "/missing"}

\* What the provider has for a path: nothing for a path that does not exist.
NoDisk == [total |-> 0, used |-> 0, free |-> 0, percent |-> 0]

DiskAt(path) == IF path = "/missing" THEN {NoDisk} ELSE DiskUsages

\* FastMCPServer.get_disk_usage, lines 49-60: no try block.
DiskUsage(path, disk) ==
    IF path = "/missing" THEN [kind |-> "raised", exc |-> "FileNotFoundError"]
    ELSE [kind |-> "record", path |-> path,
          total_gb |-> bytes_to_gb(disk.total),
          used_gb |-> bytes_to_gb(disk.used),
          free_gb |-> bytes_to_gb(disk.free),
          usage_percent |-> disk.percent]

InitQuery ==
    /\ enumeration \in Enumerations
    /\ qop = NoValue
    /\ qargs = <<>>
    /\ qresult = NoList
    /\ qresult_srv = NoList

\* The operations keep nothing between requests: one request per run.
\* A get_top_processes request, served by FastMCPServer.py and by src/server.py.
get_top_processes(limit, sort_by) ==
    /\ qop = NoValue
    /\ qop' = "get_top_processes"
    /\ qargs' = [limit |-> limit, sort_by |-> sort_by]
    /\ qresult' = TopProcesses(enumeration, limit, sort_by)
    /\ qresult_srv' = TopProcessesSrv(enumeration, limit, sort_by)
    /\ UNCHANGED enumeration
    /\ UNCHANGED <<clientVars, hostVars, cliVars>>

\* A search_process_by_name request.
search_process_by_name(name) ==
    /\ qop = NoValue
    /\ qop' = "search_process_by_name"
    /\ qargs' = [name |-> name]
    /\ qresult' = SearchProcessByName(enumeration, name)
    /\ qresult_srv' = SearchProcessByName(enumeration, name)
    /\ UNCHANGED enumeration
    /\ UNCHANGED <<clientVars, hostVars, cliVars>>

\* A get_disk_usage request; disk is what the provider reports for the path.
get_disk_usage(path, disk) ==
    /\ qop = NoValue
    /\ qop' = "get_disk_usage"
    /\ qargs' = [path |-> path, disk |-> disk]
    /\ qresult' = DiskUsage(path, disk)
    /\ qresult_srv' = NoList
    /\ UNCHANGED enumeration
    /\ UNCHANGED <<clientVars, hostVars, cliVars>>

NextQuery ==
    \/ \E path \in DiskPaths : \E disk \in DiskAt(path) : get_disk_usage(path, disk)
    \/ \E limit \in 0..MaxLimit : \E sort_by \in SortKeys : get_top_processes(limit, sort_by)
    \/ \E name \in SearchNames : search_process_by_name(name)

(***************************************************************************)
(* main_async: the command line loop around one SystemMonitorLLM.          *)
(***************************************************************************)
NoLine == <<"None">>

ExitWord == <<"e", "x", "i", "t">>
ResetWord == <<"r", "e", "s", "e", "t">>

\* What input() can return.
Lines == {<<>>, <<" ">>,
          ExitWord, <<"E", "x", "i", "t", " ">>,
          ResetWord, <<" ", "R", "e", "s", "e", "t">>,
          <<"a">>, <<" ", "a">>}

\* str.strip(), for the blank.
RECURSIVE LStrip(_)
LStrip(str) == IF str # <<>> /\ Head(str) = " " THEN LStrip(Tail(str)) ELSE str

RECURSIVE RStrip(_)
RStrip(str) ==
    IF str # <<>> /\ str[Len(str)] = " "
    THEN RStrip(SubSeq(str, 1, Len(str) - 1)) ELSE str

Strip(str) == RStrip(LStrip(str))

\* Outside the command line program the loop does not exist.
CliIdle ==
    /\ cli_pc = "off"
    /\ session = "none"
    /\ cli_line = NoLine
    /\ how_left = NoValue

InitCli ==
    /\ cli_pc = "start"
    /\ session = "none"
    /\ cli_line = NoLine
    /\ how_left = NoValue

\* The except clauses of main_async, lines 266-273: a message is printed and
\* main_async returns; neither clause calls close.
Leave(how) ==
    /\ cli_pc' = "ended"
    /\ how_left' = how

\* lines 233-235: construct the client and connect.  The constructor raises
\* without an API key; connect_to_mcp_server raises before or after the
\* transport was entered on the exit stack.
StartOutcomes == {"no_api_key", "connect_failed", "connect_failed_open", "connected"}

Start(outcome) ==
    /\ cli_pc = "start"
    /\ IF outcome = "connected"
       THEN /\ session' = "open"
            /\ cli_pc' = "reading"
            /\ UNCHANGED how_left
       ELSE /\ session' = IF outcome = "connect_failed_open" THEN "open" ELSE "none"
            /\ Leave("start_error")
    /\ UNCHANGED cli_line
    /\ UNCHANGED <<clientVars, hostVars, queryVars>>

\* lines 246-249: a line that is empty once stripped.
CliEmpty(line) ==
    /\ cli_pc = "reading"
    /\ Strip(line) = <<>>
    /\ cli_line' = line
    /\ UNCHANGED <<cli_pc, session, how_left>>
    /\ UNCHANGED <<clientVars, hostVars, queryVars>>

\* A loop that ignores the exit command.
CliExit_continue(line) ==
    /\ cli_pc = "reading"
    /\ Strip(line) # <<>>
    /\ Lower(Strip(line)) = ExitWord
    /\ cli_line' = line
    /\ UNCHANGED <<cli_pc, session, how_left>>
    /\ UNCHANGED <<clientVars, hostVars, queryVars>>

\* lines 246-253: exit breaks out of the loop, towards line 264.
CliExit(line) ==
    /\ cli_pc = "reading"
    /\ Strip(line) # <<>>
    /\ Lower(Strip(line)) = ExitWord
    /\ cli_line' = line
    /\ cli_pc' = "closing"
    /\ UNCHANGED <<session, how_left>>
    /\ UNCHANGED <<clientVars, hostVars, queryVars>>

\* lines 246-257: reset.
CliReset(line) ==
    /\ cli_pc = "reading"
    /\ Strip(line) # <<>>
    /\ Lower(Strip(line)) # ExitWord
    /\ Lower(Strip(line)) = ResetWord
    /\ cli_line' = line
    /\ ResetTranscript
    /\ UNCHANGED <<cli_pc, session, how_left>>
    /\ UNCHANGED <<hostVars, queryVars>>

\* lines 246-260: any other line is handed, stripped, to chat_async.
CliQuery(line) ==
    /\ cli_pc = "reading"
    /\ Strip(line) # <<>>
    /\ Lower(Strip(line)) # ExitWord
    /\ Lower(Strip(line)) # ResetWord
    /\ cli_line' = line
    /\ chat_async_enter(Strip(line))
    /\ cli_pc' = "in_turn"
    /\ UNCHANGED <<session, how_left>>
    /\ UNCHANGED <<hostVars, queryVars>>

\* lines 260-262: chat_async returned, the answer is printed, the loop goes on.
CliTurnReturned ==
    /\ cli_pc = "in_turn"
    /\ pc = "idle"
    /\ cli_pc' = "reading"
    /\ UNCHANGED <<session, cli_line, how_left>>
    /\ UNCHANGED <<clientVars, hostVars, queryVars>>

\* lines 260, 268-273: chat_async raised, the handler of main_async ends it.
CliTurnRaised ==
    /\ cli_pc = "in_turn"
    /\ pc = "raised"
    /\ Leave("error")
    /\ UNCHANGED <<session, cli_line>>
    /\ UNCHANGED <<clientVars, hostVars, queryVars>>

\* close (lines 219-223), called at line 264 after the loop.
close ==
    /\ cli_pc = "closing"
    /\ session' = IF session = "open" THEN "closed" ELSE session
    /\ Leave("exit")
    /\ UNCHANGED cli_line
    /\ UNCHANGED <<clientVars, hostVars, queryVars>>

\* lines 266-267: the user interrupts the program, in input() or while a
\* turn or close is awaited; whatever was running is abandoned.
KeyboardInterrupt ==
    /\ cli_pc \in {"reading", "in_turn", "closing"}
    /\ Leave("interrupt")
    /\ UNCHANGED <<session, cli_line>>
    /\ UNCHANGED <<clientVars, hostVars, queryVars>>

\* The steps of chat_async while main_async awaits it at line 260.
CliTurnStep ==
    /\ cli_pc = "in_turn"
    /\ \/ \E c \in Texts : FirstResponseText(c)
       \/ \E tcs \in ToolCallBatches : FirstResponseToolCalls(tcs)
       \/ CompletionRaises
       \/ DispatchToolCall
       \/ \E o \in ToolOutcomes : ToolReturn(o)
       \/ SynthesisRequest
       \/ \E c \in Texts : FinalResponse(c)

NextCli ==
    \/ \E outcome \in StartOutcomes : Start(outcome)
    \/ \E line \in Lines : CliEmpty(line)
    \/ \E line \in Lines : CliExit(line)
    \/ \E line \in Lines : CliReset(line)
    \/ \E line \in Lines : CliQuery(line)
    \/ CliTurnStep
    \/ CliTurnReturned
    \/ CliTurnRaised
    \/ close
    \/ KeyboardInterrupt

vars == <<clientVars, hostVars, queryVars, cliVars>>

\* The parts a specification does not exercise stay as constructed.
HostIdle ==
    /\ proc_state = "running"
    /\ permitted = TRUE
    /\ hop = NoValue
    /\ hpc = "idle"
    /\ wait_clock = 0
    /\ collected = 0
    /\ signals = <<>>
    /\ hresult = NoResult
    /\ ret_running = NoValue
    /\ exit_at = "never"

QueryIdle ==
    /\ enumeration = <<>>
    /\ qop = NoValue
    /\ qargs = <<>>
    /\ qresult = NoList
    /\ qresult_srv = NoList

Init == InitClient /\ HostIdle /\ QueryIdle /\ CliIdle

Next == NextClient

\* The Dispatch Client.
Spec == Init /\ [][Next]_vars

\* The Tool Host operations on a target process.
InitHostSpec == InitClient /\ InitHost /\ QueryIdle /\ CliIdle

SpecHost == InitHostSpec /\ [][NextHost]_vars

\* The Tool Host listing and snapshot operations.
InitQuerySpec == InitClient /\ HostIdle /\ InitQuery /\ CliIdle

SpecQuery == InitQuerySpec /\ [][NextQuery]_vars

\* The command line program.
InitCliSpec == InitClient /\ HostIdle /\ QueryIdle /\ InitCli

SpecCli == InitCliSpec /\ [][NextCli]_vars

(***************************************************************************)
(* Properties.                                                             *)
(***************************************************************************)

\* The tool responses the running turn has appended so far.
Responses == SubSeq(conversation_history, turn_base + 1, Len(conversation_history))

C2_SequentialDispatch ==
    /\ Cardinality(inflight) <= 1
    /\ \A i \in inflight :
          /\ pc = "await_tool"
          /\ i = idx
          /\ Len(Responses) = i - 1

\* The second call of a turn is in flight, the first response is appended.
C2_Witness ==
    /\ inflight = {2}
    /\ Len(Responses) = 1
    /\ Responses[1].tool_call_id = tool_calls[1].id

\* C3: the first completion request after a reset carries the system message
\* followed by the new user message, and nothing else.
C3_FreshTranscriptAfterReset ==
    (after_reset /\ pc = "await_first") =>
        request = <<SystemMessage, UserMessage(user_message)>>

\* A request is out after a reset that cleared a non-empty transcript.
C3_Witness ==
    /\ after_reset
    /\ pc = "await_first"
    /\ Len(request) = 2

\* C4: terminate_process on an existing, permitted process (the terminate
\* signal was sent) returns success with the graceful message when the
\* process exited during the bounded wait, success with the forced-kill
\* message when it did not, and the process is not running on return.
C4_TerminateOutcome ==
    (hop = "terminate_process" /\ hpc = "done" /\ Len(signals) >= 1) =>
        /\ hresult.success = "true"
        /\ ret_running = FALSE
        /\ hresult.message = IF exit_at = "wait" THEN "successfully terminated"
                             ELSE "forcefully killed"

\* C5: no operation lets a fault of the provider leave it.
C5_NoFaultPropagates == hresult.kind # "raised"

\* get_top_processes: the processes whose fields could all be read.
Readable == {i \in 1..Len(enumeration) :
                /\ ~enumeration[i].gone
                /\ enumeration[i].name # NoName
                /\ enumeration[i].mem # NoPercent}

\* The value the listing is ordered by, for the process at position i.
RequestedKey(i, key) ==
    CASE key = "cpu"    -> Round2(enumeration[i].cpu)
      [] key = "memory" -> Round2(enumeration[i].mem)
      [] key = "name"   -> StrRank(Lower(enumeration[i].name))

\* Process i comes before process j in descending order of the key, equal
\* keys in enumeration order.
DescBefore(i, j, key) ==
    \/ RequestedKey(i, key) > RequestedKey(j, key)
    \/ RequestedKey(i, key) = RequestedKey(j, key) /\ i < j

Pids(items) == [k \in 1..Len(items) |-> items[k].pid]

\* pids is the first limit entries of the readable processes in that order.
IsTopDescending(pids, limit, key) ==
    /\ Len(pids) = IF limit < Cardinality(Readable) THEN limit ELSE Cardinality(Readable)
    /\ \A k \in 1..Len(pids) : pids[k] \in Readable
    /\ \A k, m \in 1..Len(pids) : k < m => DescBefore(pids[k], pids[m], key)
    /\ \A k \in 1..Len(pids) :
          \A j \in Readable \ {pids[m] : m \in 1..Len(pids)} : DescBefore(pids[k], j, key)

\* Every process of the enumeration can be read in full.
AllReadable == Readable = 1..Len(enumeration)

\* C6: for every limit >= 0 and sort key in cpu, memory, name,
\* get_top_processes returns the first limit entries of the readable
\* processes in descending order of the key, ties in enumeration order.
\* Stated where every process is readable, so that unreadable processes
\* play no part in it.
C6_TopSortedDescending ==
    (qop = "get_top_processes" /\ qargs.sort_by \in {"cpu", "memory", "name"}
        /\ AllReadable) =>
        /\ qresult.kind = "list"
        /\ IsTopDescending(Pids(qresult.items), qargs.limit, qargs.sort_by)

\* C7: for a sort key outside cpu, memory, name, FastMCPServer.py and
\* src/server.py return the same processes in the same order.  Stated where
\* every process is readable, so that unreadable processes play no part.
C7_SameDefaultOrder ==
    (qop = "get_top_processes" /\ qargs.sort_by \notin {"cpu", "memory", "name"}
        /\ AllReadable) =>
        /\ qresult.kind = "list"
        /\ qresult_srv.kind = "list"
        /\ Pids(qresult.items) = Pids(qresult_srv.items)

\* C8: get_process_info for a process that is not running when called, or
\* that exits before the last of its fields is read, returns a record with
\* the error field alone, and raises nothing.
C8_NotRunningGivesErrorOnly ==
    (hop = "get_process_info" /\ hpc = "done"
        /\ exit_at \in {"before_call", "new", "info_read"}) =>
        /\ hresult.kind = "error"
        /\ hresult.fields = {"error"}

\* The process exited after some of its fields had been read.
C8_Witness ==
    /\ hop = "get_process_info"
    /\ hpc = "done"
    /\ exit_at = "info_read"
    /\ collected >= 1
    /\ hresult.kind = "error"

\* C9: for a valid path and a positive byte total, get_disk_usage returns
\* usage_percent within [0, 100] and total_gb > 0.
C9_DiskTotalPositive ==
    (qop = "get_disk_usage" /\ qargs.path = "/" /\ qargs.disk.total > 0) =>
        /\ qresult.kind = "record"
        /\ qresult.usage_percent >= 0
        /\ qresult.usage_percent <= 1000
        /\ qresult.total_gb > 0

\* The processes a search for name is to return: those of the enumeration
\* that can still be measured and whose name, when there is one, contains
\* name, compared in lower case.
RECURSIVE Matching(_, _)
Matching(i, name) ==
    IF i > Len(enumeration) THEN <<>>
    ELSE IF /\ enumeration[i].name # NoName
            /\ ~enumeration[i].gone
            /\ Contains(Lower(name), Lower(enumeration[i].name))
         THEN <<i>> \o Matching(i + 1, name)
         ELSE Matching(i + 1, name)

\* Every process of the enumeration can be measured; its name may be missing.
AllMeasurable ==
    \A i \in 1..Len(enumeration) :
        ~enumeration[i].gone /\ enumeration[i].mem # NoPercent

\* C10: search_process_by_name returns, in enumeration order, exactly the
\* processes whose name contains the substring case-insensitively, and an
\* empty list (no error) when none does, also when a process of the
\* enumeration has no name available.
C10_SearchReturnsMatches ==
    (qop = "search_process_by_name" /\ AllMeasurable) =>
        /\ qresult.kind = "list"
        /\ Pids(qresult.items) = Matching(1, qargs.name)

\* C11: a tool call that is awaited always ends the same way, whatever the
\* session did: one tool-response message is appended under the identifier
\* of the call, its content being the text _call_mcp_tool returned, and the
\* loop goes on to the next call; and once the loop is over the only step
\* is the synthesis request, which carries the failed calls' records too.
\* No tool failure ends the turn.
C11_ToolFailureIsOrdinaryResult ==
    [][/\ pc = "await_tool" =>
             /\ \E o \in ToolOutcomes :
                    conversation_history' =
                        Append(conversation_history,
                               ToolMessage(tool_calls[idx], CallMcpToolResult(o)))
             /\ pc' = "dispatch"
             /\ idx' = idx + 1
             /\ tool_calls' = tool_calls
       /\ (pc = "dispatch" /\ idx > Len(tool_calls)) =>
             /\ pc' = "await_final"
             /\ request' = conversation_history
             /\ conversation_history' = conversation_history]_vars

\* The synthesis request of a turn of two calls is out, the first call
\* failed in the transport and the second was answered.
C11_Witness ==
    /\ pc = "await_final"
    /\ Len(tool_calls) = 2
    /\ Len(request) = turn_base + 2
    /\ request[turn_base + 1].content = CallMcpToolResult("exception")
    /\ request[turn_base + 1].tool_call_id = tool_calls[1].id
    /\ request[turn_base + 2].content = CallMcpToolResult("content")

\* s is an initial part of t.
IsPrefix(s, t) == Len(s) <= Len(t) /\ SubSeq(t, 1, Len(s)) = s

\* C12: every step leaves the transcript as it was or longer, with the old
\* transcript as its initial part, except a reset, which runs between turns
\* only, sends nothing, and leaves the transcript empty.
C12_AppendOnlyBetweenResets ==
    [][\/ IsPrefix(conversation_history, conversation_history')
       \/ /\ conversation_history' = <<>>
          /\ pc \in {"idle", "raised"}
          /\ pc' = "idle"
          /\ request' = request]_vars

\* Two turns ran without a reset between them, the second with a tool call.
C12_Witness ==
    /\ pc = "idle"
    /\ Len(conversation_history) = 7
    /\ conversation_history[2].role = "user"
    /\ conversation_history[4].role = "user"
    /\ conversation_history[5].tool_calls # <<>>
    /\ conversation_history[6].role = "tool"

\* The capital of a letter of the command words.
Capital(c) ==
    CASE c = "e" -> "E" [] c = "i" -> "I" [] c = "r" -> "R"
      [] c = "s" -> "S" [] c = "t" -> "T" [] c = "x" -> "X"

\* line is text with blanks before and after it, and text has none at its ends.
Surrounds(line, text) ==
    /\ text # <<>>
    /\ text[1] # " "
    /\ text[Len(text)] # " "
    /\ \E a \in 0..Len(line) :
          /\ a + Len(text) <= Len(line)
          /\ \A i \in 1..Len(line) :
                IF i > a /\ i <= a + Len(text) THEN line[i] = text[i - a]
                ELSE line[i] = " "

\* line is the command word, in any letter case, with blanks around it.
Says(line, word) ==
    \E a \in 0..Len(line) :
        /\ a + Len(word) <= Len(line)
        /\ \A i \in 1..Len(line) :
              IF i > a /\ i <= a + Len(word)
              THEN line[i] \in {word[i - a], Capital(word[i - a])}
              ELSE line[i] = " "

Blank(line) == \A i \in 1..Len(line) : line[i] = " "

\* The step reads a line: the loop is at input() and is not interrupted.
ReadsLine == cli_pc = "reading" /\ how_left' = how_left

\* After exit no line is read and the client is not used; while a turn runs
\* no line is read, and the loop is back at input() only once chat_async
\* has returned.
OneTurnAtATime ==
    /\ cli_pc \in {"closing", "ended"} =>
          /\ cli_line' = cli_line
          /\ cli_pc' = "ended"
          /\ UNCHANGED clientVars
    /\ cli_pc = "in_turn" =>
          /\ cli_line' = cli_line
          /\ cli_pc' = "reading" => (pc = "idle" /\ returned # NoValue /\ UNCHANGED clientVars)

\* C13 as stated: the empty line changes nothing; the line exit ends the
\* session; the line reset empties the transcript and sends nothing; every
\* other non-empty line starts one turn, and turns and lines do not overlap.
C13_CliLineHandling ==
    [][/\ ReadsLine =>
             /\ cli_line' = <<>> => UNCHANGED <<clientVars, cli_pc, session>>
             /\ cli_line' = ExitWord => (cli_pc' = "closing" /\ UNCHANGED clientVars)
             /\ cli_line' = ResetWord =>
                   /\ conversation_history' = <<>>
                   /\ cli_pc' = "reading"
                   /\ UNCHANGED <<request, requests>>
             /\ cli_line' \notin {<<>>, ExitWord, ResetWord} =>
                   /\ cli_pc' = "in_turn"
                   /\ pc' = "await_first"
                   /\ requests' = 1
       /\ OneTurnAtATime]_vars

\* C13, amended: the line is stripped of the blanks around it and the
\* commands are recognised in any letter case.  A line of blanks changes
\* nothing; exit ends the session; reset empties the transcript and sends
\* nothing; every other line starts one turn on its stripped text, and turns
\* and lines do not overlap.
C13_CliStrippedLineHandling ==
    [][/\ ReadsLine =>
             /\ Blank(cli_line') => UNCHANGED <<clientVars, cli_pc, session>>
             /\ Says(cli_line', ExitWord) => (cli_pc' = "closing" /\ UNCHANGED clientVars)
             /\ Says(cli_line', ResetWord) =>
                   /\ conversation_history' = <<>>
                   /\ cli_pc' = "reading"
                   /\ UNCHANGED <<request, requests>>
             /\ ~(Blank(cli_line') \/ Says(cli_line', ExitWord) \/ Says(cli_line', ResetWord)) =>
                   /\ cli_pc' = "in_turn"
                   /\ pc' = "await_first"
                   /\ requests' = 1
                   /\ Surrounds(cli_line', user_message')
                   /\ request' = conversation_history'
                   /\ conversation_history'[Len(conversation_history')] = UserMessage(user_message')
       /\ OneTurnAtATime]_vars

\* A turn ran and returned, the transcript was then reset by a capitalised
\* command with a blank before it, and the session was left by a capitalised
\* exit with a blank after it.
C13_Witness ==
    /\ how_left = "exit"
    /\ cli_line = <<"E", "x", "i", "t", " ">>
    /\ returned # NoValue
    /\ conversation_history = <<>>
    /\ requests = 0

\* C14: terminate_process sends nothing, or the terminate signal, or the
\* terminate signal and then the kill signal; the kill signal is sent only
\* when the caller had the right to signal, the whole bound of the wait went
\* by and the process had not exited before the wait gave up; the records
\* for not found, for access denied and for a graceful exit come with no
\* kill signal sent; and the operation ends in one of its final records.
C14_KillOnlyAfterTimedOutWait ==
    hop = "terminate_process" =>
        /\ signals \in {<<>>, <<"SIGTERM">>, <<"SIGTERM", "SIGKILL">>}
        /\ Len(signals) = 2 =>
              /\ permitted
              /\ wait_clock = WaitTimeout
              /\ exit_at \notin {"before_call", "new", "name", "terminate", "wait", "kill"}
              /\ hresult = SuccessRecord("forcefully killed")
        /\ hpc = "done" =>
              /\ hresult \in {SuccessRecord("successfully terminated"),
                              SuccessRecord("forcefully killed"),
                              FailureRecord("kill failed"),
                              FailureRecord("not found"),
                              FailureRecord("access denied")}
              /\ hresult \in {FailureRecord("not found"), FailureRecord("access denied")}
                    => signals = <<>>
              /\ hresult = SuccessRecord("successfully terminated")
                    => (signals = <<"SIGTERM">> /\ exit_at = "wait")
              /\ hresult = FailureRecord("kill failed")
                    => (signals = <<"SIGTERM">> /\ wait_clock = WaitTimeout /\ exit_at = "kill")

\* The wait ran to its bound with the process alive and the kill was sent.
C14_Witness ==
    /\ hop = "terminate_process"
    /\ hpc = "done"
    /\ signals = <<"SIGTERM", "SIGKILL">>
    /\ wait_clock = WaitTimeout

\* The step ends a turn: chat_async returns or raises.
TurnEnds == pc \notin {"idle", "raised"} /\ pc' \in {"idle", "raised"}

\* The step is a completion request that fails.
CompletionFails == pc \in {"await_first", "await_final"} /\ pc' = "raised"

\* C15: a turn in which the model answers every request it is sent ends
\* having sent exactly one completion request when the first answer carried
\* no tool calls and exactly two when it did, the second without the tool
\* catalog; it ends by appending one assistant message without tool calls,
\* whose text is what chat_async returns.
C15_TurnEndsAfterOneOrTwoRequests ==
    [][(TurnEnds /\ ~CompletionFails) =>
          /\ requests = IF tool_calls = <<>> THEN 1 ELSE 2
          /\ tool_calls # <<>> => ~request_tools
          /\ pc' = "idle"
          /\ \E c \in Texts :
                /\ conversation_history' = Append(conversation_history, AssistantMessage(c))
                /\ returned' = c]_vars

\* In transcript h the assistant message at position i is followed by one
\* tool response per call it lists, in the order it lists them.
Answered(h, i) ==
    /\ i + Len(h[i].tool_calls) <= Len(h)
    /\ \A k \in 1..Len(h[i].tool_calls) :
          /\ h[i + k].role = "tool"
          /\ h[i + k].tool_call_id = h[i].tool_calls[k].id

\* C17: whenever chat_async has returned or raised, every assistant message
\* of the transcript that lists tool calls is followed by their responses;
\* and the first request of a turn carries no unanswered tool call.
C17_NoUnansweredToolCalls ==
    /\ pc \in {"idle", "raised"} =>
          \A i \in 1..Len(conversation_history) : Answered(conversation_history, i)
    /\ pc = "await_first" =>
          \A i \in 1..Len(request) : Answered(request, i)

\* src/server.py reads the fields the enumeration fetched and nothing after
\* it: there a process is unreadable when one of those fields is missing.
ReadableSrv == {i \in 1..Len(enumeration) :
                   /\ enumeration[i].name # NoName
                   /\ enumeration[i].mem # NoPercent}

PidSet(items) == {items[k].pid : k \in 1..Len(items)}

\* C16: get_top_processes returns a list, whatever the enumeration holds;
\* the list has records of readable processes only, and all of them when
\* the limit does not cut it short.  In FastMCPServer.py and in src/server.py.
C16_UnreadableOmitted ==
    qop = "get_top_processes" =>
        /\ qresult.kind = "list"
        /\ PidSet(qresult.items) \subseteq Readable
        /\ qargs.limit >= Len(enumeration) => PidSet(qresult.items) = Readable
        /\ qresult_srv.kind = "list"
        /\ PidSet(qresult_srv.items) \subseteq ReadableSrv
        /\ qargs.limit >= Len(enumeration) => PidSet(qresult_srv.items) = ReadableSrv

\* C18: when main_async has left its input loop, by exit, by an interrupt
\* or by an error raised in a turn, the session it opened is closed.
C18_SessionClosedOnEveryExit ==
    (cli_pc = "ended" /\ how_left \in {"exit", "interrupt", "error"}) =>
        session = "closed"

====
